---- MODULE Spec2Model ----
(***************************************************************************)
(* Model of src/DyslexiaWebsite.py: the PupilTracker fixation detector     *)
(* (detect_fixation with its bounded history window) and the control flow  *)
(* of one Streamlit script run of main() (start/stop handlers, the         *)
(* recording loop and its try/except/finally).                             *)
(*                                                                         *)
(* Two specifications share the tracker state:                             *)
(*   Spec      a caller feeds detect_fixation directly                     *)
(*   SpecMain  successive runs of main() drive the same detector           *)
(*                                                                         *)
(* Numbers: timestamps are integers (milliseconds).  Pixel coordinates are *)
(* exact rationals <<numerator, denominator>> in lowest terms, because     *)
(* np.mean produces non-integer values.                                    *)
(***************************************************************************)
EXTENDS Integers, Sequences, FiniteSets, TLC

\* ------------------------------------------------------------ bounds
\* Number of detect_fixation calls explored by Spec.
MaxCalls == 12
\* Number of those calls that may be irregular: the gaze moves to another
\* position, or the frame arrives early or late.
MaxIrregular == 2

\* ------------------------------------------------------------ constants
fixation_threshold == 20
fixation_duration == 30
HistoryMaxLen == 10

\* Python's None (a record, so that it compares with fixation and position records).
None == [is_none |-> TRUE]

\* ------------------------------------------------------------ rationals
Abs(n) == IF n < 0 THEN -n ELSE n

RECURSIVE GCD(_, _)
GCD(a, b) == IF b = 0 THEN a ELSE GCD(b, a % b)

\* n/d in lowest terms, d > 0.
Norm(n, d) == LET g == GCD(Abs(n), d) IN IF g = 0 THEN <<0, 1>> ELSE <<n \div g, d \div g>>

R(i) == <<i, 1>>
RAdd(p, q) == Norm(p[1] * q[2] + q[1] * p[2], p[2] * q[2])
RSub(p, q) == Norm(p[1] * q[2] - q[1] * p[2], p[2] * q[2])
RMul(p, q) == Norm(p[1] * q[1], p[2] * q[2])
RDivInt(p, k) == Norm(p[1], p[2] * k)
RLess(p, q) == p[1] * q[2] < q[1] * p[2]

\* A position is [x, y], each coordinate a rational.
Pt(x, y) == [x |-> R(x), y |-> R(y)]

\* scipy euclidean(p, q), squared (the square root is monotone, so comparing
\* squared distances orders the distances themselves).
SqEuclidean(p, q) ==
    LET dx == RSub(p.x, q.x)
        dy == RSub(p.y, q.y)
    IN RAdd(RMul(dx, dx), RMul(dy, dy))

RECURSIVE RSum(_, _)
RSum(s, i) == IF i = 0 THEN R(0) ELSE RAdd(s[i], RSum(s, i - 1))

\* np.mean(positions, axis=0)
MeanPosition(positions) ==
    LET n == Len(positions)
    IN [x |-> RDivInt(RSum([i \in 1..n |-> positions[i].x], n), n),
        y |-> RDivInt(RSum([i \in 1..n |-> positions[i].y], n), n)]

\* ------------------------------------------------------------ state
VARIABLES
    \* PupilTracker fields
    positions_history,   \* deque(maxlen=10) of <<position, timestamp>>
    current_fixation,    \* None or [start_time, position, duration]
    fixations,           \* list of closed fixations
    tracking_data,       \* list of per-frame records
    \* the clock read by the caller
    now,
    \* observation of the last detect_fixation call
    ret,                 \* value returned
    event,               \* branch taken: "none" before any call
    calls,               \* number of calls so far
    irregular,           \* number of irregular calls so far
    pushed,              \* every sample ever pushed, in order
    opened,              \* number of fixation objects created
    open_track,          \* None or [id, last] for the open fixation object
    closed_track,        \* [id, last, closed_at, closed_call] of each logged fixation,
                         \* same order as fixations
    \* main()
    pc,                  \* "idle" before the first run, "loop" at the while test, "done" after a run
    recording,           \* st.session_state.recording
    text_displayed,      \* st.session_state.text_displayed
    cap,                 \* capture handle of the current run: "none", "open", "released"
    button,              \* button that triggered the current run: "none", "start", "stop"
    propagated,          \* exception that left main() in the current run, or "none"
    error_shown,         \* st.error was called in the current run
    stop_steps,          \* steps the stop handler completed in the current run
    predict_calls,       \* tables handed to detector.predict so far
    csv_files,           \* files written by df.to_csv so far
    frames,              \* frames processed so far
    runs,                \* script runs so far
    loop_raised,         \* where the loop body raised in the current run, or "none"
    \* detect_pupil
    frame,               \* last frame handed to detect_pupil, None before any
    pupils               \* what detect_pupil returned for it, None before any call

tracker_vars == <<positions_history, current_fixation, fixations>>
observer_vars == <<ret, event, calls, pushed, opened, open_track, closed_track>>
pupil_vars == <<frame, pupils>>
main_vars == <<pc, recording, text_displayed, cap, button, propagated, error_shown,
               stop_steps, predict_calls, csv_files, frames, runs, loop_raised,
               frame, pupils>>
vars == <<positions_history, current_fixation, fixations, tracking_data, now,
          ret, event, calls, irregular, pushed, opened, open_track, closed_track,
          pc, recording, text_displayed, cap, button, propagated, error_shown,
          stop_steps, predict_calls, csv_files, frames, runs, loop_raised,
          frame, pupils>>

\* ------------------------------------------------------------ detect_fixation
\* Faulty variant: a deque without maxlen, nothing is ever dropped.
DequeAppendUnbounded(dq, item) == Append(dq, item)

\* deque(maxlen=HistoryMaxLen).append(item): a full deque drops its oldest item.
DequeAppend(dq, item) ==
    IF Len(dq) >= HistoryMaxLen THEN Append(Tail(dq), item) ELSE Append(dq, item)

RECURSIVE MaxSqFrom(_, _, _)
MaxSqFrom(pivot, positions, i) ==
    IF i = 1 THEN SqEuclidean(pivot, positions[1])
    ELSE LET rest == MaxSqFrom(pivot, positions, i - 1)
             d == SqEuclidean(pivot, positions[i])
         IN IF RLess(rest, d) THEN d ELSE rest

\* Faulty variant: distances are measured from the newest sample.
MaxDistanceSqFromNewest(positions) ==
    MaxSqFrom(positions[Len(positions)], positions, Len(positions))

\* max([euclidean(positions[0], p) for p in positions]), squared.
MaxDistanceSq(positions) == MaxSqFrom(positions[1], positions, Len(positions))

\* Faulty variant: the minimum duration is not required.
IsStableNoDuration(max_distance_sq, duration) ==
    RLess(max_distance_sq, R(fixation_threshold * fixation_threshold))

\* max_distance < self.fixation_threshold and duration >= self.fixation_duration
IsStable(max_distance_sq, duration) ==
    /\ RLess(max_distance_sq, R(fixation_threshold * fixation_threshold))
    /\ duration >= fixation_duration

\* Faulty variant: the fixation starts at the newest sample of the window.
NewFixationStartsAtNewest(positions, timestamps, duration) ==
    [start_time |-> timestamps[Len(timestamps)],
     position |-> IF Len(positions) > 0 THEN MeanPosition(positions) ELSE None,
     duration |-> duration]

\* Faulty variant: the position is the pivot sample instead of the mean.
NewFixationAtPivot(positions, timestamps, duration) ==
    [start_time |-> timestamps[1],
     position |-> positions[1],
     duration |-> duration]

\* The dict created when a fixation opens.
NewFixation(positions, timestamps, duration) ==
    [start_time |-> timestamps[1],
     position |-> IF Len(positions) > 0 THEN MeanPosition(positions) ELSE None,
     duration |-> duration]

\* Faulty variant: the update rebuilds the fixation from the current window.
UpdatedFixationRecomputed(fixation, positions, timestamps, duration) ==
    NewFixation(positions, timestamps, duration)

\* self.current_fixation['duration'] = duration
UpdatedFixation(fixation, positions, timestamps, duration) ==
    [fixation EXCEPT !.duration = duration]

\* Faulty variant: closing also empties the history window.
CloseFixationClearsWindow(h, fixation, log) ==
    [positions_history |-> <<>>, current_fixation |-> None,
     fixations |-> Append(log, fixation)]

\* Faulty variant: the fixation is logged but the open slot is not cleared.
CloseFixationKeepsOpen(h, fixation, log) ==
    [positions_history |-> h, current_fixation |-> fixation,
     fixations |-> Append(log, fixation)]

\* The not-stable branch with a fixation open: log it, clear the slot.
\* The window h (already holding the pushed sample) is kept as it is.
CloseFixation(h, fixation, log) ==
    [positions_history |-> h, current_fixation |-> None,
     fixations |-> Append(log, fixation)]

\* Faulty variant: the `is None` test is missing, every stable call opens anew.
StableBranchAlwaysOpens(fixation, positions, timestamps, duration) ==
    [current_fixation |-> NewFixation(positions, timestamps, duration), event |-> "open"]

\* The stable branch: open when the slot is empty, else update.
StableBranch(fixation, positions, timestamps, duration) ==
    IF fixation = None
    THEN [current_fixation |-> NewFixation(positions, timestamps, duration), event |-> "open"]
    ELSE [current_fixation |-> UpdatedFixation(fixation, positions, timestamps, duration),
          event |-> "update"]

\* The whole method as a function of the tracker fields and the arguments.
DetectFixation(h0, fixation, log, current_position, timestamp) ==
    LET h == DequeAppend(h0, <<current_position, timestamp>>)
    IN IF Len(h) < 2
       THEN [positions_history |-> h, current_fixation |-> fixation, fixations |-> log,
             ret |-> None, event |-> "short"]
       ELSE LET positions == [i \in 1..Len(h) |-> h[i][1]]
                timestamps == [i \in 1..Len(h) |-> h[i][2]]
                max_distance_sq == MaxDistanceSq(positions)
                duration == timestamps[Len(h)] - timestamps[1]
            IN IF IsStable(max_distance_sq, duration)
               THEN LET b == StableBranch(fixation, positions, timestamps, duration)
                    IN [positions_history |-> h, current_fixation |-> b.current_fixation,
                        fixations |-> log, ret |-> b.current_fixation, event |-> b.event]
               ELSE IF fixation # None
                    THEN LET c == CloseFixation(h, fixation, log)
                         IN [positions_history |-> c.positions_history,
                             current_fixation |-> c.current_fixation,
                             fixations |-> c.fixations,
                             ret |-> c.current_fixation, event |-> "close"]
                    ELSE [positions_history |-> h, current_fixation |-> fixation,
                          fixations |-> log, ret |-> fixation, event |-> "idle"]

\* One call of tracker.detect_fixation(current_position, timestamp), with the
\* bookkeeping that observes it.
detect_fixation(current_position, timestamp) ==
    \E r \in {DetectFixation(positions_history, current_fixation, fixations,
                             current_position, timestamp)} :
       /\ positions_history' = r.positions_history
       /\ current_fixation' = r.current_fixation
       /\ fixations' = r.fixations
       /\ ret' = r.ret
       /\ event' = r.event
       /\ calls' = calls + 1
       /\ pushed' = Append(pushed, <<current_position, timestamp>>)
       /\ opened' = IF r.event = "open" THEN opened + 1 ELSE opened
       /\ open_track' =
            CASE r.event = "open" -> [id |-> opened + 1, last |-> timestamp]
              [] r.event = "update" -> [open_track EXCEPT !.last = timestamp]
              [] r.event = "close" -> None
              [] OTHER -> open_track
       /\ closed_track' =
            IF r.event = "close"
            THEN Append(closed_track,
                        IF open_track = None THEN None
                        ELSE [id |-> open_track.id, last |-> open_track.last,
                              closed_at |-> timestamp, closed_call |-> calls + 1])
            ELSE closed_track

\* ------------------------------------------------------------ Spec: direct calls
Positions == {Pt(100, 100), Pt(112, 100), Pt(120, 100)}
FramePeriod == 15
Steps == {0, FramePeriod, 2 * FramePeriod}

\* A regular call repeats the previous position one frame period after the
\* previous call (the first call has no previous position).
SamePosition(position) == IF pushed = <<>> THEN TRUE ELSE position = pushed[Len(pushed)][1]
IsRegular(position, dt) == dt = FramePeriod /\ SamePosition(position)

\* Everything but the frame: a constructed PupilTracker, main() not yet run.
InitTracker ==
    /\ positions_history = <<>>
    /\ current_fixation = None
    /\ fixations = <<>>
    /\ tracking_data = <<>>
    /\ now = 0
    /\ ret = None
    /\ event = "none"
    /\ calls = 0
    /\ irregular = 0
    /\ pushed = <<>>
    /\ opened = 0
    /\ open_track = None
    /\ closed_track = <<>>
    /\ pc = "idle"
    /\ recording = FALSE
    /\ text_displayed = FALSE
    /\ cap = "none"
    /\ button = "none"
    /\ propagated = "none"
    /\ error_shown = FALSE
    /\ stop_steps = <<>>
    /\ predict_calls = <<>>
    /\ csv_files = <<>>
    /\ frames = 0
    /\ runs = 0
    /\ loop_raised = "none"
    /\ pupils = None

Init == InitTracker /\ frame = None

\* A caller invokes detect_fixation with a position and a timestamp that is
\* not before the previous one.
Observe ==
    /\ calls < MaxCalls
    /\ \E position \in Positions, dt \in Steps :
         /\ IF dt = FramePeriod THEN TRUE ELSE SamePosition(position)
         /\ IF IsRegular(position, dt) THEN TRUE ELSE irregular < MaxIrregular
         /\ irregular' = IF IsRegular(position, dt) THEN irregular ELSE irregular + 1
         /\ now' = now + dt
         /\ detect_fixation(position, now + dt)
    /\ UNCHANGED <<tracking_data, main_vars>>

Next == Observe

Spec == Init /\ [][Next]_vars


\* ------------------------------------------------------------ properties of detect_fixation
\* The last min(n, HistoryMaxLen) items of a sequence.
WindowOf(s) ==
    IF Len(s) <= HistoryMaxLen THEN s ELSE SubSeq(s, Len(s) - HistoryMaxLen + 1, Len(s))

\* The stability predicate on a window: every sample is closer than
\* fixation_threshold to the first one and the time span reaches fixation_duration.
StableOn(h) ==
    /\ Len(h) >= 1
    /\ IsStable(MaxDistanceSq([i \in 1..Len(h) |-> h[i][1]]), h[Len(h)][2] - h[1][2])

IsCall == calls' = calls + 1

\* C1: in a maximal run of consecutive calls on which the stability predicate
\* holds, the first call creates a fixation object, every later call of the run
\* creates none and leaves that same object in the open slot, and the open
\* slot is cleared only by a call on which the predicate fails.
C1_OpenedOncePerStableRun ==
    [][IsCall =>
        /\ (StableOn(positions_history') /\ ~StableOn(positions_history)) =>
              /\ opened' = opened + 1
              /\ current_fixation' # None
              /\ open_track' # None
              /\ open_track'.id = opened'
        /\ (StableOn(positions_history') /\ StableOn(positions_history)) =>
              /\ opened' = opened
              /\ current_fixation' # None
              /\ open_track # None
              /\ open_track' # None
              /\ open_track'.id = open_track.id
        /\ (current_fixation # None /\ current_fixation' = None) =>
              ~StableOn(positions_history')
      ]_vars

\* A second stable run has opened its own fixation and a later call of that
\* run has just kept it open.
C1_Witness ==
    /\ event = "update"
    /\ opened >= 2
    /\ StableOn(positions_history)

\* C2 (as claimed): every logged fixation's duration is the timestamp of its
\* last qualifying sample minus its start_time.
C2_ClosedDurationIsFullSpan ==
    \A i \in 1..Len(fixations) :
        fixations[i].duration = closed_track[i].last - fixations[i].start_time

\* C3: a call on which the predicate holds while a fixation is open leaves the
\* fixation's position and start_time as they were and keeps its set of fields:
\* only duration may differ.
C3_PositionAndStartFrozen ==
    [][(IsCall /\ current_fixation # None /\ StableOn(positions_history')) =>
        /\ current_fixation' # None
        /\ DOMAIN current_fixation' = DOMAIN current_fixation
        /\ current_fixation'.position = current_fixation.position
        /\ current_fixation'.start_time = current_fixation.start_time
      ]_vars

\* An open fixation has just been updated after the window slid past its first
\* sample, and the window's mean is no longer the fixation's position.
C3_Witness ==
    /\ event = "update"
    /\ calls > HistoryMaxLen
    /\ current_fixation.start_time < positions_history[1][2]
    /\ current_fixation.position #
         MeanPosition([i \in 1..Len(positions_history) |-> positions_history[i][1]])

\* C4: a call on which the predicate fails while a fixation is open appends
\* exactly that fixation, as it was before the call, to the closed log, empties
\* the open slot and returns None; the window is the previous window with the
\* new sample pushed (oldest evicted when full), not cleared.
C4_CloseAppendsOnceKeepsWindow ==
    [][(IsCall /\ current_fixation # None /\ ~StableOn(WindowOf(pushed'))) =>
        /\ fixations' = Append(fixations, current_fixation)
        /\ current_fixation' = None
        /\ ret' = None
        /\ positions_history' = WindowOf(Append(positions_history, pushed'[Len(pushed')]))
        /\ Len(positions_history') >= 2
      ]_vars

\* A fixation has just been closed by a call that also evicted a sample from
\* a full window.
C4_Witness ==
    /\ event = "close"
    /\ calls > HistoryMaxLen
    /\ Len(fixations) >= 1
    /\ Len(positions_history) = HistoryMaxLen

\* C5: the window is exactly the last min(n, 10) samples pushed, in arrival
\* order, so it never holds more than 10.
C5_WindowIsLastTen ==
    /\ Len(positions_history) <= HistoryMaxLen
    /\ positions_history = WindowOf(pushed)

\* At least two samples have been evicted.
C5_Witness ==
    /\ calls >= HistoryMaxLen + 2
    /\ positions_history[1] = pushed[3]

\* C6: every fixation object ever created is either the one in the open slot
\* or appears exactly once in the closed log: the number created is the length
\* of the log plus one if the slot is occupied.
C6_AtMostOneOpen ==
    /\ opened = Len(fixations) + (IF current_fixation # None THEN 1 ELSE 0)
    /\ (current_fixation = None) <=> (open_track = None)
    /\ Len(closed_track) = Len(fixations)
    /\ \A i \in 1..Len(closed_track) :
         /\ closed_track[i] # None
         /\ closed_track[i].id = i
    /\ open_track # None => open_track.id = Len(fixations) + 1

\* One fixation is logged and another one is open.
C6_Witness ==
    /\ Len(fixations) >= 1
    /\ current_fixation # None


\* The window's time span and its pivot test, written out sample by sample.
SpanOf(h) == h[Len(h)][2] - h[1][2]
AllNearOldest(h) ==
    \A i \in 1..Len(h) :
        RLess(SqEuclidean(h[1][1], h[i][1]), R(fixation_threshold * fixation_threshold))

\* C15: after every call the value returned is the open slot, and it is not
\* None exactly when the window holds at least 2 samples, every sample of the
\* window is closer than fixation_threshold to the window's oldest sample, and
\* the newest timestamp minus the oldest is at least fixation_duration.
C15_ReturnIsOpenSlotIffStable ==
    calls >= 1 =>
        /\ ret = current_fixation
        /\ (ret # None) <=>
              /\ Len(positions_history) >= 2
              /\ AllNearOldest(positions_history)
              /\ SpanOf(positions_history) >= fixation_duration

\* A window that is stable from its oldest sample although its newest sample
\* is fixation_threshold away from another one.
C15_Witness ==
    /\ ret # None
    /\ \E i \in 1..Len(positions_history) :
          ~RLess(SqEuclidean(positions_history[Len(positions_history)][1],
                             positions_history[i][1]),
                 R(fixation_threshold * fixation_threshold))

RECURSIVE SumAxis(_, _, _)
SumAxis(h, axis, i) ==
    IF i = 0 THEN R(0)
    ELSE RAdd(SumAxis(h, axis, i - 1), IF axis = "x" THEN h[i][1].x ELSE h[i][1].y)

\* C16: a call that opens a fixation creates it with start_time the oldest
\* timestamp of the window at that call, position the per-axis mean of all
\* positions of the window at that call, and duration the newest minus the
\* oldest timestamp of the window at that call.
C16_OpenedFromWindow ==
    event = "open" =>
        /\ current_fixation # None
        /\ current_fixation.start_time = positions_history[1][2]
        /\ current_fixation.duration = SpanOf(positions_history)
        /\ RMul(current_fixation.position.x, R(Len(positions_history)))
              = SumAxis(positions_history, "x", Len(positions_history))
        /\ RMul(current_fixation.position.y, R(Len(positions_history)))
              = SumAxis(positions_history, "y", Len(positions_history))

\* A fixation opens on a window whose samples are not all at one place.
C16_Witness ==
    /\ event = "open"
    /\ positions_history[1][1] # positions_history[Len(positions_history)][1]
    /\ current_fixation.position # positions_history[1][1]

\* C17: the window keeps sliding across a close, so a fixation that opens
\* while the sample on which the previous fixation was closed is still in the
\* window starts no later than that sample: its start_time is less than or
\* equal to the timestamp of the closing sample.
C17_OpenReusesSamplesBeforeClose ==
    (/\ event = "open"
     /\ Len(fixations) >= 1
     /\ calls - closed_track[Len(closed_track)].closed_call < HistoryMaxLen)
    => /\ current_fixation.start_time <= closed_track[Len(closed_track)].closed_at
       /\ current_fixation.start_time = WindowOf(pushed)[1][2]

\* Such a sequence of calls exists: the new fixation even starts before the
\* sample that closed the previous one.
C17_Witness ==
    /\ event = "open"
    /\ Len(fixations) >= 1
    /\ current_fixation.start_time < closed_track[Len(closed_track)].closed_at

\* C19: every fixation in the closed log, and the open fixation after every
\* call, has a duration of at least fixation_duration.
C19_NoShortFixation ==
    /\ \A i \in 1..Len(fixations) : fixations[i].duration >= fixation_duration
    /\ current_fixation # None => current_fixation.duration >= fixation_duration
    /\ ret # None => ret.duration >= fixation_duration

\* A fixation was logged with exactly the minimum duration.
C19_Witness ==
    /\ Len(fixations) >= 1
    /\ fixations[1].duration = fixation_duration

\* ------------------------------------------------------------ SpecExample: short call sequences
\* Calls explored by SpecExample, which feeds a fresh detector sequences over
\* the samples of the documented scenario: the first call at time 0, later
\* calls 5 or 30 ms after the previous one.
MaxExampleCalls == 5
ExamplePositions == {Pt(100, 100), Pt(101, 100), Pt(100, 101), Pt(500, 500)}
ExampleSteps == {5, 30}

ObserveExample ==
    /\ calls < MaxExampleCalls
    /\ \E position \in ExamplePositions,
          dt \in (IF calls = 0 THEN {0} ELSE ExampleSteps) :
         /\ now' = now + dt
         /\ detect_fixation(position, now + dt)
    /\ UNCHANGED <<irregular, tracking_data, main_vars>>

NextExample == ObserveExample

SpecExample == Init /\ [][NextExample]_vars

ExampleSamples ==
    << <<Pt(100, 100), 0>>, <<Pt(101, 100), 5>>, <<Pt(100, 101), 10>>,
       <<Pt(100, 100), 40>>, <<Pt(500, 500), 45>> >>

\* C12: on the scenario (100,100,t=0), (101,100,t=5), (100,101,t=10),
\* (100,100,t=40) the first three calls return None and leave no fixation open,
\* the 4th leaves one open with start_time 0, and a 5th sample (500,500,t=45)
\* closes it: one logged fixation, empty slot, None returned.
C12_Scenario ==
    /\ \A k \in 1..3 :
         pushed = SubSeq(ExampleSamples, 1, k) =>
            (ret = None /\ current_fixation = None /\ fixations = <<>>)
    /\ pushed = SubSeq(ExampleSamples, 1, 4) =>
         /\ current_fixation # None
         /\ current_fixation.start_time = 0
         /\ fixations = <<>>
    /\ pushed = ExampleSamples =>
         /\ Len(fixations) = 1
         /\ fixations[1].start_time = 0
         /\ current_fixation = None
         /\ ret = None

\* The five samples of the scenario have been fed.
C12_Witness == pushed = ExampleSamples


\* ------------------------------------------------------------ detect_pupil
LEFT_IRIS == <<474, 475, 476, 477>>
RIGHT_IRIS == <<469, 470, 471, 472>>

\* An integer pixel position.
Px(x, y) == [x |-> x, y |-> y]

\* A frame as detect_pupil sees it: its shape and what face_mesh.process finds
\* in it: multi_face_landmarks is empty, or holds one face whose landmark list
\* maps an index to a normalized point [x, y] (rationals).  Only the iris
\* indices are kept.
NoFaceFrame(shape) == [shape |-> shape, multi_face_landmarks |-> <<>>]
FaceFrame(shape, left_iris, right_iris) ==
    [shape |-> shape,
     multi_face_landmarks |->
        <<[k \in {LEFT_IRIS[i] : i \in 1..4} \cup {RIGHT_IRIS[i] : i \in 1..4} |->
             IF k >= LEFT_IRIS[1] THEN left_iris[k - LEFT_IRIS[1] + 1]
             ELSE right_iris[k - RIGHT_IRIS[1] + 1]]>>]

\* Four normalized iris points whose pixels surround (cx, cy) in a frame of
\* the given shape.
IrisAround(shape, cx, cy) ==
    << [x |-> Norm(cx - 2, shape.width), y |-> Norm(cy - 2, shape.height)],
       [x |-> Norm(cx + 2, shape.width), y |-> Norm(cy - 2, shape.height)],
       [x |-> Norm(cx - 2, shape.width), y |-> Norm(cy + 2, shape.height)],
       [x |-> Norm(cx + 2, shape.width), y |-> Norm(cy + 2, shape.height)] >>

\* .astype(int): the fractional part is dropped, towards zero.
Trunc(r) == IF r[1] >= 0 THEN r[1] \div r[2] ELSE -((-r[1]) \div r[2])

\* np.multiply([p.x, p.y], [frame.shape[1], frame.shape[0]]).astype(int)
MeshPoint(p, shape) ==
    Px(Trunc(RMul(p.x, R(shape.width))), Trunc(RMul(p.y, R(shape.height))))

\* Faulty variant: the mean is rounded to the nearest pixel.
IrisCenterRounded(mesh_points, iris) ==
    LET n == Len(iris)
        sx == RSum([i \in 1..n |-> R(mesh_points[iris[i]].x)], n)
        sy == RSum([i \in 1..n |-> R(mesh_points[iris[i]].y)], n)
    IN Px(Trunc(RAdd(RDivInt(sx, n), <<1, 2>>)), Trunc(RAdd(RDivInt(sy, n), <<1, 2>>)))

\* np.mean(mesh_points[iris], axis=0).astype(int)
IrisCenter(mesh_points, iris) ==
    LET n == Len(iris)
        sx == RSum([i \in 1..n |-> R(mesh_points[iris[i]].x)], n)
        sy == RSum([i \in 1..n |-> R(mesh_points[iris[i]].y)], n)
    IN Px(Trunc(RDivInt(sx, n)), Trunc(RDivInt(sy, n)))

\* Faulty variant: without a face the centres are (0, 0) instead of None.
DetectPupilZeroWithoutFace(fr) ==
    IF Len(fr.multi_face_landmarks) > 0
    THEN LET landmark == fr.multi_face_landmarks[1]
             mesh_points == [k \in DOMAIN landmark |-> MeshPoint(landmark[k], fr.shape)]
         IN [left |-> IrisCenter(mesh_points, LEFT_IRIS),
             right |-> IrisCenter(mesh_points, RIGHT_IRIS)]
    ELSE [left |-> Px(0, 0), right |-> Px(0, 0)]

\* detect_pupil(frame): the two centres it returns (lines 42-58).
DetectPupil(fr) ==
    IF Len(fr.multi_face_landmarks) > 0
    THEN LET landmark == fr.multi_face_landmarks[1]
             mesh_points == [k \in DOMAIN landmark |-> MeshPoint(landmark[k], fr.shape)]
         IN [left |-> IrisCenter(mesh_points, LEFT_IRIS),
             right |-> IrisCenter(mesh_points, RIGHT_IRIS)]
    ELSE [left |-> None, right |-> None]

\* ------------------------------------------------------------ SpecPupil: detect_pupil on one frame
\* Normalized landmark points: exact tenths, a point whose pixel has a
\* fractional part, and a point left of the image.
NormPoints ==
    { [x |-> <<1, 2>>, y |-> <<1, 2>>], [x |-> <<3, 5>>, y |-> <<1, 2>>],
      [x |-> <<1, 2>>, y |-> <<3, 5>>], [x |-> <<3, 5>>, y |-> <<3, 5>>],
      [x |-> <<117, 200>>, y |-> <<1, 3>>], [x |-> <<-3, 200>>, y |-> <<1, 2>>] }
Shapes == { [width |-> 100, height |-> 100], [width |-> 640, height |-> 480] }
RightIris == IrisAround([width |-> 100, height |-> 100], 30, 50)
PupilFrames ==
    {NoFaceFrame(sh) : sh \in Shapes} \cup
    {FaceFrame(sh, <<a, b, [x |-> <<1, 2>>, y |-> <<3, 5>>], c>>, RightIris) :
        sh \in Shapes, a \in NormPoints, b \in NormPoints, c \in NormPoints}

InitPupil == InitTracker /\ frame \in PupilFrames

\* tracker.detect_pupil(frame), called once on the frame.
detect_pupil ==
    /\ pupils = None
    /\ pupils' = DetectPupil(frame)
    /\ UNCHANGED <<tracker_vars, observer_vars, irregular, tracking_data, now, frame,
                   pc, recording, text_displayed, cap, button, propagated, error_shown,
                   stop_steps, predict_calls, csv_files, frames, runs, loop_raised>>

NextPupil == detect_pupil

SpecPupil == InitPupil /\ [][NextPupil]_vars

\* ------------------------------------------------------------ detect_pupil properties
NoPupils == [left |-> None, right |-> None]
FaceFound(fr) == Len(fr.multi_face_landmarks) > 0
IsLocate == pupils = None /\ pupils' # None

\* C13: detect_pupil on a frame with no detected face returns (None, None) for
\* the two centres, raises nothing (control stays where it was, nothing is
\* propagated or reported), and leaves the window, the open fixation, the
\* closed log and the tracking data unchanged.
C13_NoFaceGivesNoneNone ==
    [][(IsLocate /\ ~FaceFound(frame)) =>
          /\ pupils' = NoPupils
          /\ UNCHANGED <<pc, propagated, error_shown>>
          /\ UNCHANGED <<tracker_vars, tracking_data>>]_vars

C13_Witness == ~FaceFound(frame) /\ pupils = NoPupils

\* Integer division that drops the fractional part towards zero.
TruncDiv(a, b) == IF a >= 0 THEN a \div b ELSE -((-a) \div b)
\* The centre the text prescribes, in integers only: every normalized
\* coordinate num/den is scaled by the frame size and truncated, the four
\* pixels are averaged, and the average is truncated.
ExpectedAxis(coords, size) ==
    TruncDiv(TruncDiv(coords[1][1] * size, coords[1][2]) +
             TruncDiv(coords[2][1] * size, coords[2][2]) +
             TruncDiv(coords[3][1] * size, coords[3][2]) +
             TruncDiv(coords[4][1] * size, coords[4][2]), Len(coords))
ExpectedCenter(fr, iris) ==
    LET landmark == fr.multi_face_landmarks[1]
    IN Px(ExpectedAxis([i \in 1..Len(iris) |-> landmark[iris[i]].x], fr.shape.width),
          ExpectedAxis([i \in 1..Len(iris) |-> landmark[iris[i]].y], fr.shape.height))
ExampleFrame ==
    FaceFrame([width |-> 100, height |-> 100],
              << [x |-> <<1, 2>>, y |-> <<1, 2>>], [x |-> <<3, 5>>, y |-> <<1, 2>>],
                 [x |-> <<1, 2>>, y |-> <<3, 5>>], [x |-> <<3, 5>>, y |-> <<3, 5>> ] >>,
              RightIris)

\* C14: when a face is detected each eye's centre is, per axis, the truncated
\* mean of the iris landmarks' pixel coordinates, each pixel coordinate being
\* the normalized coordinate times the frame width (x) or height (y),
\* truncated; the points (0.5,0.5),(0.6,0.5),(0.5,0.6),(0.6,0.6) on a 100x100
\* frame give (55, 55).
C14_CenterIsTruncatedMean ==
    (pupils # None /\ FaceFound(frame)) =>
        /\ pupils.left = ExpectedCenter(frame, LEFT_IRIS)
        /\ pupils.right = ExpectedCenter(frame, RIGHT_IRIS)
        /\ frame = ExampleFrame => pupils.left = Px(55, 55)

C14_Witness == frame = ExampleFrame /\ pupils # None /\ pupils.left = Px(55, 55)

\* ------------------------------------------------------------ main()
\* Frames processed and script runs explored by SpecMain.
MaxFrames == 3
MaxRuns == 3

\* Frames the camera delivers in SpecMain: a 400x200 image in which the face
\* mesh finds no face, or a face whose irises are centred on the given pixels.
MainShape == [width |-> 400, height |-> 200]
MainFrames ==
    { FaceFrame(MainShape, IrisAround(MainShape, 90, 100), IrisAround(MainShape, 110, 100)),
      FaceFrame(MainShape, IrisAround(MainShape, 91, 100), IrisAround(MainShape, 110, 100)),
      FaceFrame(MainShape, IrisAround(MainShape, 290, 100), IrisAround(MainShape, 310, 100)),
      NoFaceFrame(MainShape) }
\* Clock advance between two frames of the loop.
FrameSteps == {FramePeriod, 2 * FramePeriod}

\* np.mean([left_center, right_center], axis=0)
AvgPosition(left, right) == [x |-> Norm(left.x + right.x, 2), y |-> Norm(left.y + right.y, 2)]

\* The dict appended to tracking_data for one frame (lines 197-210).
DataPoint(current_time, left, right, fixation) ==
    LET base == [timestamp |-> current_time,
                 left_pupil_x |-> left.x, left_pupil_y |-> left.y,
                 right_pupil_x |-> right.x, right_pupil_y |-> right.y,
                 is_fixation |-> fixation # None]
    IN IF fixation # None
       THEN base @@ [fixation_duration |-> fixation.duration,
                     fixation_x |-> IF fixation.position # None
                                    THEN fixation.position.x ELSE None,
                     fixation_y |-> IF fixation.position # None
                                    THEN fixation.position.y ELSE None]
       ELSE base

\* Columns of pd.DataFrame(list of dicts): every key of every dict.
Columns(data) == UNION {DOMAIN data[i] : i \in 1..Len(data)}

\* df[df['is_fixation']]
IsFixationRow(row) == row.is_fixation
FixationRows(data) == SelectSeq(data, IsFixationRow)

\* DyslexiaDetector.predict(rows): the two class probabilities.
Predict(rows) == [p_no_risk |-> "p0", p_risk |-> "p1"]

\* datetime.now().strftime("%Y%m%d_%H%M%S"): the clock cut to whole seconds.
Strftime(clock_ms) == clock_ms \div 1000

\* Line 171 formats the file name from the local name `filename`.  The names
\* bound in main() when line 171 is evaluated:
LocalsAtSave(timestamp) == [timestamp |-> timestamp]
SaveName(locals) ==
    IF "filename" \in DOMAIN locals
    THEN [raised |-> "none", filename |-> <<"pupil_tracking_data_", locals.filename, ".csv">>]
    ELSE [raised |-> "UnboundLocalError", filename |-> None]

\* Outcome of a step of the stop handler that raised: nothing after it runs.
StopRaised(steps, exc, predicted) ==
    [steps |-> steps, raised |-> exc, predicted |-> predicted, saved |-> <<>>]

\* The stop handler after the flags are reset (lines 148-173).
StopHandler(data, clock_ms) ==
    IF Len(data) > 0
    THEN LET fixation_data == FixationRows(data)
         IN IF "fixation_duration" \notin Columns(data)
            THEN StopRaised(<<"recording_off">>, "KeyError", <<>>)
            ELSE LET prediction_proba == Predict(fixation_data)
                     name == SaveName(LocalsAtSave(Strftime(clock_ms)))
                     done == <<"recording_off", "aggregated", "predicted", "reported">>
                 IN IF name.raised # "none"
                    THEN StopRaised(done, name.raised, <<Len(fixation_data)>>)
                    ELSE [steps |-> Append(done, "persisted"), raised |-> "none",
                          predicted |-> <<Len(fixation_data)>>,
                          saved |-> <<[filename |-> name.filename, rows |-> Len(data)]>>]
    ELSE [steps |-> <<"recording_off">>, raised |-> "none", predicted |-> <<>>, saved |-> <<>>]

\* Faulty variant: no except clause, the exception leaves main() after finally.
TryExitNoExcept(raised) ==
    [error_shown |-> FALSE, propagated |-> raised, cap |-> "released"]

\* except Exception / finally (lines 222-226): how the try statement is left.
\* raised is "none" when the loop ended without an exception.
TryExit(raised) ==
    [error_shown |-> raised # "none", propagated |-> "none", cap |-> "released"]

LeaveTry(raised) ==
    \E t \in {TryExit(raised)} :
       /\ error_shown' = t.error_shown
       /\ propagated' = t.propagated
       /\ cap' = t.cap
       /\ loop_raised' = raised
       /\ pc' = "done"

\* Lines 107-130 of a script run: a fresh capture handle, the buttons read.
BeginRun(b) ==
    /\ pc \in {"idle", "done"}
    /\ runs < MaxRuns
    /\ runs' = runs + 1
    /\ button' = b
    /\ cap' = "open"
    /\ error_shown' = FALSE
    /\ loop_raised' = "none"

\* A run triggered by neither button.
main_plain ==
    /\ BeginRun("none")
    /\ stop_steps' = <<>>
    /\ propagated' = "none"
    /\ pc' = "loop"
    /\ UNCHANGED <<pupil_vars, tracker_vars, observer_vars, irregular, tracking_data, now, recording,
                   text_displayed, predict_calls, csv_files, frames>>

\* Faulty variant: the start trigger also builds a fresh detector state.
main_startResetsTracker ==
    /\ BeginRun("start")
    /\ recording' = TRUE
    /\ tracking_data' = <<>>
    /\ positions_history' = <<>>
    /\ current_fixation' = None
    /\ fixations' = <<>>
    /\ text_displayed' = TRUE
    /\ stop_steps' = <<>>
    /\ propagated' = "none"
    /\ pc' = "loop"
    /\ UNCHANGED <<pupil_vars, observer_vars, irregular, now, predict_calls, csv_files,
                   frames>>

\* A run triggered by "Start Recording" (lines 132-140).
main_start ==
    /\ BeginRun("start")
    /\ recording' = TRUE
    /\ tracking_data' = <<>>
    /\ text_displayed' = TRUE
    /\ stop_steps' = <<>>
    /\ propagated' = "none"
    /\ pc' = "loop"
    /\ UNCHANGED <<pupil_vars, tracker_vars, observer_vars, irregular, now, predict_calls, csv_files,
                   frames>>

\* A run triggered by "Stop Recording" (lines 142-173).  An exception raised
\* here is outside the try statement: it leaves main() at once.
main_stop ==
    /\ BeginRun("stop")
    /\ recording' = FALSE
    /\ text_displayed' = FALSE
    /\ \E r \in {StopHandler(tracking_data, now)} :
         /\ stop_steps' = r.steps
         /\ predict_calls' = predict_calls \o r.predicted
         /\ csv_files' = csv_files \o r.saved
         /\ propagated' = r.raised
         /\ pc' = IF r.raised = "none" THEN "loop" ELSE "done"
    /\ UNCHANGED <<pupil_vars, tracker_vars, observer_vars, irregular, tracking_data, now, frames>>

\* while st.session_state.recording: the test fails, the try statement ends.
loop_exit ==
    /\ pc = "loop"
    /\ ~recording
    /\ LeaveTry("none")
    /\ UNCHANGED <<pupil_vars, tracker_vars, observer_vars, irregular, tracking_data, now, recording,
                   text_displayed, button, stop_steps, predict_calls, csv_files,
                   frames, runs>>

\* cap.read() returns ret = False: break.
loop_read_failed ==
    /\ pc = "loop"
    /\ recording
    /\ LeaveTry("none")
    /\ UNCHANGED <<pupil_vars, tracker_vars, observer_vars, irregular, tracking_data, now, recording,
                   text_displayed, button, stop_steps, predict_calls, csv_files,
                   frames, runs>>

\* cap.read() or detect_pupil raises: nothing of the frame has been processed.
loop_raise_early ==
    /\ pc = "loop"
    /\ recording
    /\ \E at \in {"read", "detect_pupil"} : LeaveTry(at)
    /\ UNCHANGED <<pupil_vars, tracker_vars, observer_vars, irregular, tracking_data, now, recording,
                   text_displayed, button, stop_steps, predict_calls, csv_files,
                   frames, runs>>

\* Faulty variant: the detector is fed but the frame's record is not appended.
RecordFrameNoAppend(res, current_time) ==
    /\ detect_fixation(AvgPosition(res.left, res.right), current_time)
    /\ UNCHANGED tracking_data

\* Lines 184-211 for a frame whose two centres were found.
RecordFrame(res, current_time) ==
    /\ detect_fixation(AvgPosition(res.left, res.right), current_time)
    /\ tracking_data' = Append(tracking_data,
                               DataPoint(current_time, res.left, res.right, ret'))

\* Faulty variant: a frame without centres feeds a null sample to the window.
SkipFramePushesNull ==
    /\ positions_history' = DequeAppend(positions_history, <<None, now'>>)
    /\ UNCHANGED <<current_fixation, fixations, observer_vars, tracking_data>>

\* A frame on which a centre is missing: lines 184-216 are skipped.
SkipFrame ==
    UNCHANGED <<tracker_vars, observer_vars, tracking_data>>

Found(res) == res.left # None /\ res.right # None

\* One iteration of the loop body that runs to its end (lines 177-220).
loop_frame ==
    /\ pc = "loop"
    /\ recording
    /\ frames < MaxFrames
    /\ \E fr \in MainFrames, dt \in FrameSteps :
         \E res \in {DetectPupil(fr)} :
            /\ frame' = fr
            /\ pupils' = res
            /\ now' = now + dt
            /\ IF Found(res) THEN RecordFrame(res, now + dt) ELSE SkipFrame
    /\ frames' = frames + 1
    /\ UNCHANGED <<irregular, pc, recording, text_displayed, cap, button, propagated,
                   error_shown, stop_steps, predict_calls, csv_files, runs, loop_raised>>

\* One iteration in which a drawing or display call raises.
loop_frame_raises ==
    /\ pc = "loop"
    /\ recording
    /\ frames < MaxFrames
    /\ \E fr \in MainFrames, dt \in FrameSteps,
          at \in {"draw_pupils", "draw_fixation", "display"} :
         \E res \in {DetectPupil(fr)} :
         /\ frame' = fr
         /\ pupils' = res
         /\ now' = now + dt
         /\ CASE at = "draw_pupils" ->
                   \* cv2.circle at lines 186-187, before detect_fixation
                   /\ Found(res)
                   /\ UNCHANGED <<tracker_vars, observer_vars, tracking_data>>
              [] at = "draw_fixation" ->
                   \* cv2.circle at line 215, reached only with a fixation
                   /\ Found(res)
                   /\ RecordFrame(res, now + dt)
                   /\ ret' # None
              [] at = "display" ->
                   \* lines 219-220
                   IF Found(res) THEN RecordFrame(res, now + dt) ELSE SkipFrame
         /\ LeaveTry(at)
    /\ frames' = frames + 1
    /\ UNCHANGED <<irregular, recording, text_displayed, button, stop_steps,
                   predict_calls, csv_files, runs>>

NextMain ==
    \/ main_plain
    \/ main_start
    \/ main_stop
    \/ loop_exit
    \/ loop_read_failed
    \/ loop_raise_early
    \/ loop_frame
    \/ loop_frame_raises

SpecMain == Init /\ [][NextMain]_vars

\* ------------------------------------------------------------ properties of main()
\* C7 (as claimed): a run of main() never ends with its capture handle still
\* acquired.
C7_CaptureReleasedAtEveryEnd == pc = "done" => cap = "released"

\* C8 (as claimed): a stop trigger with at least one tracking record completes
\* every step of the handler, the last being the CSV written.
C8_StopRunsToPersisted ==
    (button = "stop" /\ Len(tracking_data) > 0) =>
        /\ stop_steps = <<"recording_off", "aggregated", "predicted", "reported", "persisted">>
        /\ csv_files # <<>>

\* C9 (as claimed): a stop trigger with no fixation row raises nothing and
\* neither classifies nor persists.
C9_EmptyTableHandled ==
    (button = "stop" /\ FixationRows(tracking_data) = <<>>) =>
        /\ propagated = "none"
        /\ stop_steps = <<"recording_off">>

\* C10: an exception raised inside the recording loop is shown with st.error,
\* the capture handle is released and the exception does not leave main().
C10_LoopExceptionCaught ==
    loop_raised # "none" =>
        /\ error_shown
        /\ cap = "released"
        /\ propagated = "none"
        /\ pc = "done"

\* The loop body raised while drawing a fixation, after the frame was recorded.
C10_Witness ==
    /\ loop_raised = "draw_fixation"
    /\ Len(tracking_data) > 0
    /\ error_shown

\* C11 (as claimed): every frame the loop processes to its end appends exactly
\* one record to tracking_data.
C11_OneRecordPerFrame ==
    [][(frames' = frames + 1 /\ loop_raised' = "none") =>
          Len(tracking_data') = Len(tracking_data) + 1]_vars

StartStep == runs' = runs + 1 /\ button' = "start"

\* C11 (amended): a frame appends exactly one record, stamped with that frame's
\* time, when the loop calls detect_fixation for it (both centres found); any
\* other step leaves tracking_data alone, except a start trigger, which
\* empties it.
C11_OneRecordPerObservedFrame ==
    [][/\ IsCall =>
            /\ Len(tracking_data') = Len(tracking_data) + 1
            /\ SubSeq(tracking_data', 1, Len(tracking_data)) = tracking_data
            /\ tracking_data'[Len(tracking_data')].timestamp = now'
       /\ (~IsCall /\ ~StartStep) => tracking_data' = tracking_data
       /\ StartStep => tracking_data' = <<>>
      ]_vars

\* A session holds records although one of its frames had no face.
C11_Witness ==
    /\ recording
    /\ Len(tracking_data) >= 1
    /\ frames > calls
    /\ event # "none"

FrameStep == frames' = frames + 1

\* C18: a frame on which either pupil centre is None is skipped by the loop:
\* detect_fixation is not called, the history window, the open fixation and
\* the closed log are unchanged by that frame, and no None sample is ever in
\* the window.
C18_FrameWithoutPupilsSkipped ==
    [][/\ (FrameStep /\ (pupils'.left = None \/ pupils'.right = None)) =>
             /\ ~IsCall
             /\ UNCHANGED <<positions_history, current_fixation, fixations>>
       /\ \A i \in 1..Len(positions_history') : positions_history'[i][1] # None
      ]_vars

\* A frame without a face arrives when the window already holds samples.
C18_Witness ==
    /\ pupils = NoPupils
    /\ frames > calls
    /\ frames >= 2
    /\ Len(positions_history) >= 1
    /\ loop_raised = "none"

\* C20: the start trigger empties only the per-frame tracking log; the
\* history window, the open fixation and the closed log are left unchanged by
\* start and by stop (and by any other new run), so they carry over into the
\* next recording session.
C20_StartKeepsDetectorState ==
    [][/\ (runs' = runs + 1) => UNCHANGED <<positions_history, current_fixation, fixations>>
       /\ StartStep => tracking_data' = <<>>
       /\ (runs' = runs + 1 /\ ~StartStep) => tracking_data' = tracking_data
      ]_vars

\* The first frame of a later session is recorded as a fixation that began in
\* the session before: the window still held that session's samples.
C20_Witness ==
    /\ button = "start"
    /\ runs >= 2
    /\ Len(tracking_data) = 1
    /\ tracking_data[1].is_fixation
    /\ Len(positions_history) >= 2
    /\ current_fixation # None
    /\ current_fixation.start_time < tracking_data[1].timestamp

====
